---- MODULE Spec2Model ----
(***************************************************************************)
(* Model of woob_bank_exporter.py: the WoobBankCollector (construction,    *)
(* get_metrics, collect) and main.                                         *)
(*                                                                         *)
(* Python strings that the program parses or compares are sequences of     *)
(* one-character strings, so that float(), str() and strptime() are        *)
(* computed character by character.  Field names and metric names are      *)
(* plain strings: the program only compares and concatenates them.         *)
(*                                                                         *)
(* A field value is a record [t, n, s, e]:                                 *)
(*   t = "int"   the number n                                              *)
(*   t = "bool"  False (n = 0) or True (n = 1)                             *)
(*   t = "str"   the string s                                              *)
(*   t = "list"  a list of n zeros (a value of a non-scalar type)          *)
(*   t = "raise" reading the attribute raises the exception named e        *)
(* A field the account variant does not define is not in the account's     *)
(* field map.                                                              *)
(***************************************************************************)
EXTENDS Integers, Sequences, FiniteSets, TLC

\* ------------------------------------------------------------------ bounds
MaxAccounts == 2

\* ------------------------------------------------------- python primitives
IntV(n) == [t |-> "int", n |-> n, s |-> <<>>, e |-> ""]
BoolV(b) == [t |-> "bool", n |-> IF b THEN 1 ELSE 0, s |-> <<>>, e |-> ""]
StrV(s) == [t |-> "str", n |-> 0, s |-> s, e |-> ""]
ListV(n) == [t |-> "list", n |-> n, s |-> <<>>, e |-> ""]
RaiseV(e) == [t |-> "raise", n |-> 0, s |-> <<>>, e |-> e]

Digits == <<"0", "1", "2", "3", "4", "5", "6", "7", "8", "9">>

IsDigit(c) == \E i \in 1..10 : Digits[i] = c

DigitVal(c) == (CHOOSE i \in 1..10 : Digits[i] = c) - 1

AllDigits(s) == \A i \in 1..Len(s) : IsDigit(s[i])

RECURSIVE DecVal(_)
DecVal(s) ==
    IF s = <<>> THEN 0
    ELSE 10 * DecVal(SubSeq(s, 1, Len(s) - 1)) + DigitVal(s[Len(s)])

RECURSIVE NatToStr(_)
NatToStr(n) ==
    IF n < 10 THEN <<Digits[n + 1]>>
    ELSE NatToStr(n \div 10) \o <<Digits[(n % 10) + 1]>>

IntToStr(n) == IF n < 0 THEN <<"-">> \o NatToStr(0 - n) ELSE NatToStr(n)

RECURSIVE ZerosToStr(_)
ZerosToStr(n) ==
    IF n = 0 THEN <<>>
    ELSE IF n = 1 THEN <<"0">>
    ELSE ZerosToStr(n - 1) \o <<",", " ", "0">>

\* str(value)
PyStr(v) ==
    CASE v.t = "str" -> v.s
      [] v.t = "int" -> IntToStr(v.n)
      [] v.t = "bool" -> IF v.n = 1 THEN <<"T", "r", "u", "e">>
                         ELSE <<"F", "a", "l", "s", "e">>
      [] v.t = "list" -> <<"[">> \o ZerosToStr(v.n) \o <<"]">>

\* bool(value), as the `if value` test evaluates it
Truthy(v) ==
    CASE v.t = "str" -> Len(v.s) > 0
      [] v.t = "int" -> v.n # 0
      [] v.t = "bool" -> v.n = 1
      [] v.t = "list" -> v.n > 0

NOT_LOADED == <<"N", "o", "t", " ", "l", "o", "a", "d", "e", "d">>

\* value != "Not loaded"
NotSentinel(v) == ~(v.t = "str" /\ v.s = NOT_LOADED)

\* A float: k = "fin" is the decimal number n / 10^e, otherwise nan, inf, -inf.
Fin(n, e) == [k |-> "fin", n |-> n, e |-> e]
Special(k) == [k |-> k, n |-> 0, e |-> 0]

LowerCase(c) ==
    CASE c = "N" -> "n" [] c = "A" -> "a" [] c = "I" -> "i"
      [] c = "F" -> "f" [] c = "T" -> "t" [] c = "Y" -> "y"
      [] OTHER -> c

Lower(s) == [i \in 1..Len(s) |-> LowerCase(s[i])]

IndexOf(s, c) ==
    IF \E i \in 1..Len(s) : s[i] = c
    THEN CHOOSE i \in 1..Len(s) : s[i] = c /\ \A j \in 1..(i - 1) : s[j] # c
    ELSE 0

\* float() of digits with an optional fraction: ip before the point, fp
\* after it.
FloatOfParts(ip, fp, neg) ==
    IF Len(ip) + Len(fp) > 0 /\ AllDigits(ip) /\ AllDigits(fp)
    THEN [ok |-> TRUE,
          v |-> Fin(IF neg THEN 0 - DecVal(ip \o fp) ELSE DecVal(ip \o fp), Len(fp))]
    ELSE [ok |-> FALSE, v |-> Special("nan")]

FloatOfDecimal(s, dot, neg) ==
    IF dot = 0 THEN FloatOfParts(s, <<>>, neg)
    ELSE FloatOfParts(SubSeq(s, 1, dot - 1), SubSeq(s, dot + 1, Len(s)), neg)

\* float() of an unsigned literal: nan / inf / infinity in any letter case,
\* or digits with an optional fraction.  The strings of this model hold no
\* exponent, underscore or surrounding white space.
FloatOfUnsigned(s, low, neg) ==
    IF low = <<"n", "a", "n">> THEN [ok |-> TRUE, v |-> Special("nan")]
    ELSE IF low = <<"i", "n", "f">>
            \/ low = <<"i", "n", "f", "i", "n", "i", "t", "y">>
    THEN [ok |-> TRUE, v |-> Special(IF neg THEN "-inf" ELSE "inf")]
    ELSE FloatOfDecimal(s, IndexOf(s, "."), neg)

FloatOfSigned(s, neg) == FloatOfUnsigned(s, Lower(s), neg)

FloatOfStr(s) ==
    IF s # <<>> /\ s[1] \in {"+", "-"}
    THEN FloatOfSigned(SubSeq(s, 2, Len(s)), s[1] = "-")
    ELSE FloatOfSigned(s, FALSE)

FloatResult(r) == [exc |-> IF r.ok THEN "" ELSE "ValueError", v |-> r.v]

\* float(value): [exc |-> "" and the float] or the exception raised
PyFloat(v) ==
    CASE v.t = "int" -> [exc |-> "", v |-> Fin(v.n, 0)]
      [] v.t = "bool" -> [exc |-> "", v |-> Fin(v.n, 0)]
      [] v.t = "list" -> [exc |-> "TypeError", v |-> Special("nan")]
      [] v.t = "str" -> FloatResult(FloatOfStr(v.s))

\* ------------------------------------------------------------------ dates
IsLeap(y) == (y % 4 = 0 /\ y % 100 # 0) \/ y % 400 = 0

DaysInMonth(y, m) ==
    IF m = 2 THEN (IF IsLeap(y) THEN 29 ELSE 28)
    ELSE IF m \in {4, 6, 9, 11} THEN 30 ELSE 31

\* days from 1970-01-01 to the civil date y-m-d (proleptic Gregorian)
DaysFromCivil(y, m, d) ==
    LET yy == IF m <= 2 THEN y - 1 ELSE y
        era == yy \div 400
        yoe == yy - era * 400
        mp == (m + 9) % 12
        doy == (153 * mp + 2) \div 5 + d - 1
        doe == yoe * 365 + yoe \div 4 - yoe \div 100 + doy
    IN  era * 146097 + doe - 719468

NoDate == [ok |-> FALSE, y |-> 0, m |-> 0, d |-> 0]

\* The date of the numbers strptime read, if there is such a date.
DateOf(y, m, d) ==
    IF y >= 1 /\ m \in 1..12 /\ d >= 1 /\ d <= DaysInMonth(y, m)
    THEN [ok |-> TRUE, y |-> y, m |-> m, d |-> d]
    ELSE NoDate

\* %Y is four digits, %m and %d are one or two digits.
DateOfParts(ys, ms, ds) ==
    IF /\ Len(ys) = 4 /\ AllDigits(ys)
       /\ Len(ms) \in {1, 2} /\ AllDigits(ms)
       /\ Len(ds) \in {1, 2} /\ AllDigits(ds)
    THEN DateOf(DecVal(ys), DecVal(ms), DecVal(ds))
    ELSE NoDate

SplitRest(ys, rest, d2) ==
    IF d2 = 0 THEN NoDate
    ELSE DateOfParts(ys, SubSeq(rest, 1, d2 - 1), SubSeq(rest, d2 + 1, Len(rest)))

SplitYear(ys, rest) == SplitRest(ys, rest, IndexOf(rest, "-"))

SplitDate(s, d1) ==
    IF d1 = 0 THEN NoDate
    ELSE SplitYear(SubSeq(s, 1, d1 - 1), SubSeq(s, d1 + 1, Len(s)))

\* datetime.strptime(s, "%Y-%m-%d"): the string splits at its dashes into
\* year, month and day, and the date must exist.
Strptime(s) == SplitDate(s, IndexOf(s, "-"))

\* day of the week of a day number, Sunday = 0 (1970-01-01 was a Thursday)
DayOfWeek(days) == (days + 4) % 7

LastSunday(y, m) ==
    LET last == DaysInMonth(y, m)
    IN  last - DayOfWeek(DaysFromCivil(y, m, last))

\* Offset from UTC, in seconds, of local midnight of y-m-d in a time zone.
\* Europe/Paris switches at 02:00 local time on the last Sunday of March and
\* at 03:00 on the last Sunday of October, so midnight of the switch day is
\* still in the old regime.
UtcOffset(zone, y, m, d) ==
    CASE zone = "UTC" -> 0
      [] zone = "Europe/Paris" ->
            LET summer == \/ (m = 3 /\ d > LastSunday(y, 3))
                          \/ m \in 4..9
                          \/ (m = 10 /\ d <= LastSunday(y, 10))
            IN  IF summer THEN 7200 ELSE 3600

\* datetime(y, m, d).timestamp() of a naive datetime: the date is read as
\* local time of the process's time zone.
Timestamp(zone, y, m, d) == DaysFromCivil(y, m, d) * 86400 - UtcOffset(zone, y, m, d)

\* --------------------------------------------------------------- constants
IGNORE_KEYS == {"url"}

METRICS ==
    << [name |-> "balance", description |-> "Balance on this bank account",
        type |-> "gauge"],
       [name |-> "coming", description |-> "Sum of coming movements",
        type |-> "gauge"],
       [name |-> "valuation_diff_ratio", description |-> "+/- values ratio",
        type |-> "gauge"],
       [name |-> "total_amount", description |-> "Total amount loaned",
        type |-> "gauge"],
       [name |-> "next_payment_amount", description |-> "Amount of next payment",
        type |-> "gauge"],
       [name |-> "opening_date",
        description |-> "Date when the account contract was created on the bank",
        type |-> "datetime"],
       [name |-> "subscription_date",
        description |-> "Date of subscription of the loan",
        type |-> "datetime"],
       [name |-> "maturity_date", description |-> "Estimated end date of the loan",
        type |-> "datetime"],
       [name |-> "next_payment_date", description |-> "Date of the next payment",
        type |-> "datetime"] >>

MetricNames == {METRICS[i].name : i \in 1..Len(METRICS)}

\* The environment's configuration of one deployment.
WOOB_BANK_EXPORTER_NAME == <<"w", "b", "e">>
WOOB_BANK_NAME == <<"a", "c", "c">>
WOOB_BANK_MODULE == <<"m", "o", "d">>

\* The exceptions the per-metric try block catches.
CaughtExceptions == {"AttributeError", "ValueError", "TypeError"}

\* ------------------------------------------------------------ get_metrics
\* dict update: the entries of b replace those of a
Merge(a, b) ==
    [k \in (DOMAIN a) \cup (DOMAIN b) |-> IF k \in DOMAIN b THEN b[k] ELSE a[k]]

\* The keys of account._fields the label loop reads.
LabelKeys(account) ==
    {k \in DOMAIN account.fields : k \notin MetricNames \cup IGNORE_KEYS}

IdLabel(account) == [k \in {"id"} |-> PyStr(account.id)]

RaisingKeys(account) ==
    {k \in LabelKeys(account) : account.fields[k].t = "raise"}

KeptKeys(account) ==
    {k \in LabelKeys(account) : /\ Truthy(account.fields[k])
                                /\ NotSentinel(account.fields[k])}

LabelsOf(account, raising) ==
    IF raising # {}
    THEN [exc |-> account.fields[CHOOSE k \in raising : TRUE].e,
          labels |-> IdLabel(account)]
    ELSE [exc |-> "",
          labels |-> Merge(IdLabel(account),
                           [k \in KeptKeys(account) |-> PyStr(account.fields[k])])]

\* The label loop of one account.  getattr is outside any try block: a field
\* whose access raises ends get_metrics with that exception.
BuildLabels(account) == LabelsOf(account, RaisingKeys(account))

NoItem == [name |-> "", labels |-> <<>>, description |-> "", value |-> Special("nan"),
           type |-> ""]

Item(metric, labels, value, type) ==
    [name |-> "woob_bank_" \o metric.name, labels |-> labels,
     description |-> metric.description, value |-> value, type |-> type]

\* The outcomes of one pass of the try block: the item is appended
\* ("sample"), nothing is appended and the loop continues ("skip"), or the
\* exception leaves get_metrics ("raise").
Sampled(item) == [res |-> "sample", exc |-> "", item |-> item]

Skipped == [res |-> "skip", exc |-> "", item |-> NoItem]

Raised(e) ==
    [res |-> IF e \in CaughtExceptions THEN "skip" ELSE "raise", exc |-> e,
     item |-> NoItem]

\* datetime.strptime(str(value), "%Y-%m-%d").timestamp(), type counter
DateStep(metric, labels, zone, p) ==
    IF p.ok
    THEN Sampled(Item(metric, labels, Fin(Timestamp(zone, p.y, p.m, p.d), 0), "counter"))
    ELSE Raised("ValueError")

\* float(value), type of the definition
FloatStep(metric, labels, f) ==
    IF f.exc = "" THEN Sampled(Item(metric, labels, f.v, metric.type))
    ELSE Raised(f.exc)

\* The branch of a value that passed `value and value != "Not loaded"`.
Coerce(metric, labels, zone, value) ==
    IF metric.type = "datetime"
    THEN DateStep(metric, labels, zone, Strptime(PyStr(value)))
    ELSE FloatStep(metric, labels, PyFloat(value))

\* ValueStep with a default: a value that fails the test yields a sample of
\* value 0.
ValueStepDefaultsValue(metric, labels, zone, value) ==
    IF value.t = "raise" THEN Raised(value.e)
    ELSE IF Truthy(value) /\ NotSentinel(value)
    THEN Coerce(metric, labels, zone, value)
    ELSE Sampled(Item(metric, labels, Fin(0, 0), metric.type))

\* The try block from the value getattr returned, or the exception it raised.
ValueStep(metric, labels, zone, value) ==
    IF value.t = "raise" THEN Raised(value.e)
    ELSE IF Truthy(value) /\ NotSentinel(value)
    THEN Coerce(metric, labels, zone, value)
    ELSE Skipped

\* One pass of the try block for one metric of one account; getattr of a
\* field the account does not define raises AttributeError.
MetricStep(account, metric, labels, zone) ==
    IF metric.name \notin DOMAIN account.fields THEN Raised("AttributeError")
    ELSE ValueStep(metric, labels, zone, account.fields[metric.name])

\* AppendItem with insert(0, item) in place of append(item).
AppendItemPrepends(acc, st, a, j) ==
    IF st.res = "raise" THEN [acc EXCEPT !.exc = st.exc]
    ELSE IF st.res = "sample"
    THEN [acc EXCEPT !.metrics = <<st.item>> \o @,
                     !.origins = <<(<<a, j>>)>> \o @]
    ELSE acc

\* The effect of one pass st on acc = [exc, metrics, origins, providerFailed]:
\* metrics.append(item), where origins[k] = <<a, j>> records the account and
\* the definition metrics[k] was built from; continue; or the exception.
AppendItem(acc, st, a, j) ==
    IF st.res = "raise" THEN [acc EXCEPT !.exc = st.exc]
    ELSE IF st.res = "sample"
    THEN [acc EXCEPT !.metrics = Append(@, st.item),
                     !.origins = Append(@, <<a, j>>)]
    ELSE acc

\* The metric loop of account number a from METRICS[j] on.
RECURSIVE MetricLoop(_, _, _, _, _, _)
MetricLoopFrom(account, a, labels, zone, j, acc) ==
    IF acc.exc # "" THEN acc
    ELSE MetricLoop(account, a, labels, zone, j + 1, acc)

MetricLoop(account, a, labels, zone, j, acc) ==
    IF j > Len(METRICS) THEN acc
    ELSE MetricLoopFrom(account, a, labels, zone, j,
                        AppendItem(acc, MetricStep(account, METRICS[j], labels, zone),
                                   a, j))

AccountStepWith(account, a, zone, acc, b) ==
    IF b.exc # "" THEN [acc EXCEPT !.exc = b.exc]
    ELSE MetricLoop(account, a, b.labels, zone, 1, acc)

\* The body of `for account in self.woob.iter_accounts()` for one account.
AccountStep(account, a, zone, acc) ==
    AccountStepWith(account, a, zone, acc, BuildLabels(account))

\* The account loop from account number a on.  The provider's iterator
\* raises when asked for item number failAt (failAt = 0: it never raises;
\* failAt = 1: it raises before any account; failAt = Len(accts) + 1: it
\* raises after the last account instead of finishing).
RECURSIVE AccountLoop(_, _, _, _, _)
AccountLoopFrom(accts, failAt, zone, a, acc) ==
    IF acc.exc # "" THEN acc
    ELSE AccountLoop(accts, failAt, zone, a + 1, acc)

AccountLoop(accts, failAt, zone, a, acc) ==
    IF failAt = a THEN [acc EXCEPT !.exc = "ProviderError", !.providerFailed = TRUE]
    ELSE IF a > Len(accts) THEN acc
    ELSE AccountLoopFrom(accts, failAt, zone, a,
                         AccountStep(accts[a], a, zone, acc))

EmptyRun ==
    [exc |-> "", metrics |-> <<>>, origins |-> <<>>, providerFailed |-> FALSE]

SwallowProviderError(r) ==
    IF r.exc = "ProviderError" THEN [r EXCEPT !.exc = ""] ELSE r

\* get_metrics with the account loop in a try block that returns the list
\* built so far when the provider raises.
GetMetricsRunSwallowsProviderError(accts, failAt, zone) ==
    SwallowProviderError(AccountLoop(accts, failAt, zone, 1, EmptyRun))

\* get_metrics: exc = "" and the list it returns, or the exception that
\* leaves it together with the local list at that moment.
GetMetricsRun(accts, failAt, zone) == AccountLoop(accts, failAt, zone, 1, EmptyRun)

\* ---------------------------------------------------------------- collect
StaticLabels ==
    [k \in {"job", "name", "module"} |->
        CASE k = "job" -> WOOB_BANK_EXPORTER_NAME
          [] k = "name" -> WOOB_BANK_NAME
          [] k = "module" -> WOOB_BANK_MODULE]

\* PrometheusMetric with the update the other way round: the static labels
\* replace the account's.
PrometheusMetricStaticWins(metric) ==
    [name |-> metric.name, description |-> metric.description,
     type |-> metric.type, value |-> metric.value,
     labels |-> Merge(metric.labels, StaticLabels)]

\* The Metric with its one sample that collect yields for an item.
PrometheusMetric(metric) ==
    [name |-> metric.name, description |-> metric.description,
     type |-> metric.type, value |-> metric.value,
     labels |-> Merge(StaticLabels, metric.labels)]

\* ----------------------------------------------------------------- inputs
\* The field maps of the accounts the provider returns: a base account and
\* the accounts that differ from it in one field.
BaseFields ==
    ("url" :> StrV(<<"h", ":", "/", "/", "b">>))
    @@ ("label" :> StrV(<<"M", "a", "i", "n">>))
    @@ ("currency" :> StrV(<<"E", "U", "R">>))
    @@ ("balance" :> IntV(100))

With(f, k, v) == [x \in (DOMAIN f) \cup {k} |-> IF x = k THEN v ELSE f[x]]

Without(f, k) == [x \in (DOMAIN f) \ {k} |-> f[x]]

GaugeValues ==
    { IntV(0), StrV(<<>>), StrV(NOT_LOADED),
      StrV(<<"-", "1", "2", ".", "5", "0">>), StrV(<<"a", "b", "c">>),
      StrV(<<"n", "a", "n">>), StrV(<<"-", "I", "n", "f">>), ListV(1),
      RaiseV("AttributeError"), RaiseV("RuntimeError") }

DateValues ==
    { StrV(<<"2", "0", "2", "0", "-", "0", "1", "-", "1", "5">>),
      StrV(<<"2", "0", "2", "0", "-", "0", "7", "-", "0", "1">>),
      StrV(<<"2", "0", "2", "0", "-", "0", "2", "-", "3", "0">>),
      StrV(<<"1", "5", "/", "0", "1", "/", "2", "0", "2", "0">>),
      StrV(NOT_LOADED), IntV(20200115) }

LabelValues ==
    { StrV(<<>>), StrV(NOT_LOADED), IntV(0), BoolV(FALSE),
      RaiseV("RuntimeError") }

AccountPool ==
    {BaseFields, Without(BaseFields, "balance"),
     With(BaseFields, "job", StrV(<<"o", "t", "h", "e", "r">>))}
    \cup {With(BaseFields, "coming", v) : v \in GaugeValues}
    \cup {With(BaseFields, "opening_date", v) : v \in DateValues}
    \cup {With(BaseFields, "type", v) : v \in LabelValues}

\* The time zones the process may run in (TZ, or the system's zone).
Zones == {"UTC", "Europe/Paris"}

\* ------------------------------------------------------------------ state
VARIABLES
    mainPc,          \* where main is: main, start_server, construct2,
                     \* register, loop, exited
    exitStatus,      \* the status of os._exit, -1 while the process runs
    c1, c2,          \* what load_backend and check_credentials did in the
                     \* first and the second WoobBankCollector()
    serverStarted,   \* start_http_server has run
    registered,      \* REGISTRY.register has run
    served,          \* the server has answered a request
    zone,            \* the time zone of the process
    cyclePc,         \* where collect is: idle, yielding, raised
    accounts,        \* the accounts the provider holds in this cycle
    failAt,          \* the item at which the provider's iterator raises
    metrics,         \* the list get_metrics built
    origins,         \* origins[k]: the account and definition of metrics[k]
    exc,             \* the exception that left get_metrics, or ""
    providerFailed,  \* the provider's iterator raised in this cycle
    yielded          \* what collect has yielded in this cycle

vars == <<mainPc, exitStatus, c1, c2, serverStarted, registered, served, zone,
          cyclePc, accounts, failAt, metrics, origins, exc, providerFailed,
          yielded>>

mainVars == <<mainPc, exitStatus, c1, c2, serverStarted, registered>>

cycleVars == <<cyclePc, accounts, failAt, metrics, origins, exc,
               providerFailed, yielded>>

NotConstructed == [load |-> "none", cred |-> FALSE]

Init ==
    /\ mainPc = "main"
    /\ exitStatus = -1
    /\ c1 = NotConstructed
    /\ c2 = NotConstructed
    /\ serverStarted = FALSE
    /\ registered = FALSE
    /\ served = FALSE
    /\ zone \in Zones
    /\ cyclePc = "idle"
    /\ accounts = <<>>
    /\ failAt = 0
    /\ metrics = <<>>
    /\ origins = <<>>
    /\ exc = ""
    /\ providerFailed = FALSE
    /\ yielded = <<>>

\* ------------------------------------------------------------------- main
\* __init__ without the check_credentials test.
InitOutcomeNoCredentialCheck(load, cred) ==
    IF load = "ModuleLoadError" THEN "exit" ELSE "ok"

\* WoobBankCollector.__init__: "ok", or "exit" when it calls os._exit(1).
InitOutcome(load, cred) ==
    IF load = "ModuleLoadError" THEN "exit"
    ELSE IF ~cred THEN "exit"
    ELSE "ok"

\* What the backend does at a construction; check_credentials is only
\* called when load_backend returned.
Constructions ==
    {[load |-> "ModuleLoadError", cred |-> FALSE],
     [load |-> "ok", cred |-> FALSE], [load |-> "ok", cred |-> TRUE]}

\* main: the first WoobBankCollector()
Construct1 ==
    /\ mainPc = "main"
    /\ \E c \in Constructions :
        /\ c1' = c
        /\ IF InitOutcome(c.load, c.cred) = "exit"
           THEN mainPc' = "exited" /\ exitStatus' = 1
           ELSE mainPc' = "start_server" /\ exitStatus' = exitStatus
    /\ UNCHANGED <<c2, serverStarted, registered, served, zone>>
    /\ UNCHANGED cycleVars

\* main: start_http_server(WOOB_BANK_EXPORTER_PORT)
StartHttpServer ==
    /\ mainPc = "start_server"
    /\ serverStarted' = TRUE
    /\ mainPc' = "construct2"
    /\ UNCHANGED <<exitStatus, c1, c2, registered, served, zone>>
    /\ UNCHANGED cycleVars

\* main: the WoobBankCollector() that is the argument of REGISTRY.register
Construct2 ==
    /\ mainPc = "construct2"
    /\ \E c \in Constructions :
        /\ c2' = c
        /\ IF InitOutcome(c.load, c.cred) = "exit"
           THEN mainPc' = "exited" /\ exitStatus' = 1
           ELSE mainPc' = "register" /\ exitStatus' = exitStatus
    /\ UNCHANGED <<c1, serverStarted, registered, served, zone>>
    /\ UNCHANGED cycleVars

\* main: REGISTRY.register(...), then the sleep loop
Register ==
    /\ mainPc = "register"
    /\ registered' = TRUE
    /\ mainPc' = "loop"
    /\ UNCHANGED <<exitStatus, c1, c2, serverStarted, served, zone>>
    /\ UNCHANGED cycleVars

\* The server thread answers a request while no collector is registered.
ServeRequest ==
    /\ serverStarted
    /\ ~registered
    /\ mainPc # "exited"
    /\ served' = TRUE
    /\ UNCHANGED <<zone>>
    /\ UNCHANGED mainVars
    /\ UNCHANGED cycleVars

\* ---------------------------------------------------------- a scrape cycle
AccountId(i) == StrV(<<"A">> \o NatToStr(i))

\* collect, up to the return of get_metrics: the first step of the generator.
GetMetrics ==
    /\ registered
    /\ mainPc # "exited"
    /\ cyclePc = "idle"
    /\ \E n \in 0..MaxAccounts :
        \E fs \in [1..n -> AccountPool] :
          \E f \in 0..(n + 1) :
            \E accts \in {[i \in 1..n |-> [id |-> AccountId(i), fields |-> fs[i]]]} :
              \E r \in {GetMetricsRun(accts, f, zone)} :
                /\ accounts' = accts
                /\ failAt' = f
                /\ metrics' = r.metrics
                /\ origins' = r.origins
                /\ exc' = r.exc
                /\ providerFailed' = r.providerFailed
                /\ cyclePc' = IF r.exc = "" THEN "yielding" ELSE "raised"
    /\ yielded' = <<>>
    /\ UNCHANGED <<served, zone>>
    /\ UNCHANGED mainVars

\* collect: one pass of `for metric in metrics`, up to the yield.
Yield ==
    /\ cyclePc = "yielding"
    /\ Len(yielded) < Len(metrics)
    /\ yielded' = Append(yielded, PrometheusMetric(metrics[Len(yielded) + 1]))
    /\ UNCHANGED <<cyclePc, accounts, failAt, metrics, origins, exc,
                   providerFailed, served, zone>>
    /\ UNCHANGED mainVars

\* The generator is exhausted, or the exception reached the caller of
\* collect: the request is answered and nothing is kept for the next cycle.
EndCycle ==
    /\ \/ cyclePc = "raised"
       \/ cyclePc = "yielding" /\ Len(yielded) = Len(metrics)
    /\ cyclePc' = "idle"
    /\ accounts' = <<>>
    /\ failAt' = 0
    /\ metrics' = <<>>
    /\ origins' = <<>>
    /\ exc' = ""
    /\ providerFailed' = FALSE
    /\ yielded' = <<>>
    /\ served' = TRUE
    /\ UNCHANGED <<zone>>
    /\ UNCHANGED mainVars

Next ==
    \/ Construct1
    \/ StartHttpServer
    \/ Construct2
    \/ Register
    \/ ServeRequest
    \/ GetMetrics
    \/ Yield
    \/ EndCycle

Spec == Init /\ [][Next]_vars

\* ------------------------------------------------------------- properties
Accts == 1..Len(accounts)

Defs == 1..Len(METRICS)

FieldsOf(i) == accounts[i].fields

\* The field of account i that definition j names is defined and readable.
Readable(i, j) ==
    /\ METRICS[j].name \in DOMAIN FieldsOf(i)
    /\ FieldsOf(i)[METRICS[j].name].t # "raise"

FieldValue(i, j) == FieldsOf(i)[METRICS[j].name]

HasSample(i, j) == \E k \in 1..Len(metrics) : origins[k] = <<i, j>>

\* The field converts to a number: float() accepts it, or it is a date in
\* the form YYYY-MM-DD.
Converts(i, j) ==
    IF METRICS[j].type = "datetime"
    THEN Strptime(PyStr(FieldValue(i, j))).ok
    ELSE PyFloat(FieldValue(i, j)).exc = ""

\* C1: as long as the provider's listing does not fail, get_metrics does not
\* raise, whatever the fields of the accounts hold, and every field that is
\* present, not the sentinel and convertible has its sample.
C1_FieldFailureNeverAborts ==
    (cyclePc # "idle" /\ ~providerFailed) =>
        /\ exc = ""
        /\ \A i \in Accts : \A j \in Defs :
              (/\ Readable(i, j)
               /\ Truthy(FieldValue(i, j))
               /\ NotSentinel(FieldValue(i, j))
               /\ Converts(i, j)) => HasSample(i, j)

\* C2: a gauge field that holds the number 0 has a sample of value 0.
C2_ZeroIsEmitted ==
    cyclePc = "yielding" =>
        \A i \in Accts : \A j \in Defs :
            (/\ METRICS[j].type = "gauge"
             /\ Readable(i, j)
             /\ FieldValue(i, j) = IntV(0))
            => \E k \in 1..Len(metrics) :
                  origins[k] = <<i, j>> /\ metrics[k].value = Fin(0, 0)

\* C3: the sample of a date field is a counter whose value is the epoch
\* seconds of that date at UTC midnight, in every time zone of the process.
C3_DateIsUtcMidnight ==
    \A k \in 1..Len(metrics) :
        METRICS[origins[k][2]].type = "datetime" =>
            LET p == Strptime(PyStr(FieldValue(origins[k][1], origins[k][2])))
            IN  /\ metrics[k].type = "counter"
                /\ metrics[k].value = Fin(DaysFromCivil(p.y, p.m, p.d) * 86400, 0)

\* C4: no sample has the value NaN, Infinity or -Infinity.
C4_ValuesFinite ==
    \A k \in 1..Len(metrics) : metrics[k].value.k = "fin"

\* C5: apart from id, the labels of an account's samples are exactly its
\* fields that are no metric name, not url, present and not the sentinel,
\* each with its value as a string.
C5_LabelsExact ==
    \A k \in 1..Len(metrics) :
        LET f == FieldsOf(origins[k][1])
            expected == {x \in DOMAIN f :
                            /\ x \notin MetricNames
                            /\ x # "url"
                            /\ f[x].t # "raise"
                            /\ NotSentinel(f[x])}
        IN  /\ (DOMAIN metrics[k].labels) \ {"id"} = expected
            /\ \A x \in expected : metrics[k].labels[x] = PyStr(f[x])

\* C6: every sample comes from a field of its account that is present, not
\* the sentinel and convertible, carries the converted value of a gauge
\* field, and no account has two samples of one definition; so an absent or
\* sentinel field has no sample.
C6_NoFabricatedSample ==
    /\ \A k \in 1..Len(metrics) :
          LET i == origins[k][1]
              j == origins[k][2]
          IN  /\ i \in Accts /\ j \in Defs
              /\ Readable(i, j)
              /\ NotSentinel(FieldValue(i, j))
              /\ Converts(i, j)
              /\ metrics[k].name = "woob_bank_" \o METRICS[j].name
              /\ METRICS[j].type = "gauge" =>
                    metrics[k].value = PyFloat(FieldValue(i, j)).v
    /\ \A k1, k2 \in 1..Len(metrics) : origins[k1] = origins[k2] => k1 = k2
    /\ Len(metrics) <= Len(accounts) * Len(METRICS)
    /\ Len(yielded) <= Len(metrics)

\* A finished cycle with samples, over accounts of which one holds the
\* sentinel in a metric field and one does not define a metric field.
C6_Witness ==
    /\ cyclePc = "yielding"
    /\ Len(metrics) > 0
    /\ Len(yielded) = Len(metrics)
    /\ \E i \in Accts : \E j \in Defs :
          Readable(i, j) /\ ~NotSentinel(FieldValue(i, j))
    /\ \E i \in Accts : "balance" \notin DOMAIN FieldsOf(i)

\* The fields of account i that get_metrics turns into labels.
DynamicKeys(i) ==
    {x \in DOMAIN FieldsOf(i) :
        /\ x \notin MetricNames
        /\ x \notin IGNORE_KEYS
        /\ Truthy(FieldsOf(i)[x])
        /\ NotSentinel(FieldsOf(i)[x])}

\* C7: the labels of a yielded sample are job, name, module, then id, then
\* the account's dynamic labels, a later one replacing an earlier one of the
\* same key.
C7_LabelPrecedence ==
    \A k \in 1..Len(yielded) :
        LET i == origins[k][1]
            L == yielded[k].labels
            dyn == DynamicKeys(i)
        IN  /\ DOMAIN L = {"job", "name", "module", "id"} \cup dyn
            /\ \A x \in dyn : L[x] = PyStr(FieldsOf(i)[x])
            /\ "id" \notin dyn => L["id"] = PyStr(accounts[i].id)
            /\ \A x \in {"job", "name", "module"} :
                  x \notin dyn => L[x] = StaticLabels[x]

\* A sample was yielded for an account that has a field named job.
C7_Witness ==
    \E k \in 1..Len(yielded) :
        /\ "job" \in DynamicKeys(origins[k][1])
        /\ yielded[k].labels["job"] # WOOB_BANK_EXPORTER_NAME
        /\ yielded[k].labels["name"] = WOOB_BANK_NAME

\* C8: when the provider's iterator raises, the exception leaves get_metrics
\* and collect, and collect yields nothing in that cycle.
C8_ProviderFailurePropagates ==
    providerFailed =>
        /\ cyclePc = "raised"
        /\ exc = "ProviderError"
        /\ yielded = <<>>

\* The provider raised after get_metrics had built samples of an account.
C8_Witness ==
    /\ providerFailed
    /\ failAt > 1
    /\ Len(metrics) > 0
    /\ yielded = <<>>

Before(o1, o2) == o1[1] < o2[1] \/ (o1[1] = o2[1] /\ o1[2] < o2[2])

\* C9: the k-th yielded sample is the k-th sample get_metrics built, and the
\* samples follow the order of the accounts and, within an account, the
\* order of METRICS.
C9_YieldOrder ==
    /\ \A k \in 1..Len(yielded) :
          /\ yielded[k].name = "woob_bank_" \o METRICS[origins[k][2]].name
          /\ yielded[k].value = metrics[k].value
          /\ "id" \notin DynamicKeys(origins[k][1]) =>
                yielded[k].labels["id"] = PyStr(accounts[origins[k][1]].id)
    /\ \A k1, k2 \in 1..Len(metrics) : k1 < k2 => Before(origins[k1], origins[k2])

\* Two samples of one account and one of the next were yielded, and a field
\* of the first account was skipped between its two samples.
C9_Witness ==
    /\ Len(yielded) >= 3
    /\ origins[1] = <<1, 1>>
    /\ origins[2][1] = 1
    /\ origins[2][2] > 2
    /\ origins[3][1] = 2

Succeeded(c) == c.load = "ok" /\ c.cred

Failed(c) == c.load = "ModuleLoadError" \/ (c.load = "ok" /\ ~c.cred)

\* C10: the server runs only after the first construction succeeded, the
\* collector is registered only after the second one succeeded, a failed
\* construction exits with status 1, and after a failed first construction
\* there is no server and no request is served.
C10_ServerAfterConstruction ==
    /\ serverStarted => Succeeded(c1)
    /\ registered => Succeeded(c2) /\ serverStarted
    /\ Failed(c1) => /\ mainPc = "exited" /\ exitStatus = 1
                     /\ ~serverStarted /\ ~registered /\ ~served
    /\ Failed(c2) => /\ mainPc = "exited" /\ exitStatus = 1 /\ ~registered
    /\ cyclePc # "idle" => registered

\* check_credentials returned false in the first construction.
C10_Witness ==
    /\ c1.load = "ok"
    /\ ~c1.cred
    /\ mainPc = "exited"

====
